---- MODULE Spec2Model ----
(***************************************************************************)
(* A model of gitlab-mirror-maker: the reconciliation of GitLab            *)
(* repositories against GitHub repositories and GitLab push mirrors        *)
(* (mirrormaker.py), the two GitLab backends (gitlab.py, glab_cli.py) and  *)
(* the GitHub client (github.py).                                          *)
(*                                                                         *)
(* Python strings are sequences of characters.  The fixed pieces of a URL  *)
(* ("https://", "github.com", ".git") are single elements: no repository   *)
(* or user name of the model contains them.  The empty string is <<>>.     *)
(***************************************************************************)
EXTENDS Integers, Sequences, FiniteSets, TLC

VARIABLES
  hostGithub,    \* GitHub: the account's repositories, in host order
  hostMirrors,   \* GitLab: project id -> its remote mirrors, in host order
  hostGitlab,    \* GitLab: the projects the listing returns, in host order
  ghLogin,       \* GitHub: login of the account the GitHub token belongs to
  glabExit,      \* the machine: how "glab --version" ends: "zero", "nonzero", "error"
  github_user,   \* github.user (github.py:14), set at mirrormaker.py:110
  cli_dry_run,   \* the --dry-run/--no-dry-run option: "none", "true", "false"
  cfg_dry_run,   \* config.config["dry_run"] as loaded from the config file
  use_glab,      \* --use-glab if given, else config "use_glab_cli" (mirrormaker.py:62)
  has_github_token, \* github_token is not empty after mirrormaker.py:99
  has_gitlab_token, \* gitlab_token is not empty after mirrormaker.py:100
  repo,          \* the REPO argument, <<>> when not given
  save_config,   \* the --save-config flag
  use_glab_cli,  \* mirrormaker(): the local use_glab_cli, the backend in use
  run,           \* number of the current run of the program
  pc,            \* where the current run is
  gitlab_repos,  \* mirrormaker(): the GitLab snapshot of this run
  github_repos,  \* mirrormaker(): the GitHub snapshot of this run
  actions,       \* find_actions_to_perform(): the plan built so far
  lookups,       \* per repository of the snapshot: did its mirror lookup succeed
  idx,           \* position of the next element of the loop in progress
  calls,         \* the creation calls of this run, in call order
  prev,          \* what the previous run did to each of its repositories
  faults,        \* the requests and commands the hosts have failed so far
  log,           \* the probe, listings and lookups of this run, in order
  cause,         \* the exception raised inside the try of mirrormaker(), or "none"
  exit,          \* how the run ended: "none" (running), "0", or the exception raised
  l_host,        \* a single listing: "github", "gitlab" (native) or "glab"
  l_pages,       \* the pages the host serves for it
  l_result,      \* what the listing returns: [done, value]
  c_key,         \* a single option: its name
  c_cli,         \* its value on the command line, "none" when not given
  c_file,        \* its value in the configuration file, "absent" when not there
  c_value,       \* the value in effect for the run, "unset" before it is worked out
  m_github_repos,\* argument of a single call of mirror_target_exists
  m_mirrors,     \* argument of a single call of mirror_target_exists
  m_result,      \* its result: "none" before the call, else "true"/"false"
  f_args,        \* a single call of another function: its name (fn) and arguments
  f_result       \* what that call returns: [done, ...]

hostVars == <<hostGithub, hostMirrors, hostGitlab, ghLogin, glabExit>>
cfgVars  == <<github_user, cli_dry_run, cfg_dry_run, use_glab, has_github_token,
             has_gitlab_token, repo, save_config>>
runVars  == <<run, pc, gitlab_repos, github_repos, actions, lookups, idx, calls, prev,
             faults, use_glab_cli, log, cause, exit>>
fnVars   == <<m_github_repos, m_mirrors, m_result, l_host, l_pages, l_result,
             c_key, c_cli, c_file, c_value, f_args, f_result>>
vars     == <<hostVars, cfgVars, runVars, fnVars>>

-----------------------------------------------------------------------------
\* Bounds of the model.

\* Most GitLab projects in a listing.
MaxRepos == 2
\* Most consecutive runs of the program.
MaxRuns == 2
\* Longest argument list of the single call of mirror_target_exists.
MaxLen == 2
\* Most requests and commands that the hosts fail in one behaviour (a request
\* that cannot succeed, such as creating a repository whose name is taken,
\* does not count).
MaxFaults == 2
\* Most pages a host serves for the single listing, and most repositories on
\* one of its pages.
MaxPages == 2
MaxPerPage == 2

-----------------------------------------------------------------------------
\* Strings.

\* str.endswith
EndsWith(s, suffix) ==
  /\ Len(suffix) <= Len(s)
  /\ SubSeq(s, Len(s) - Len(suffix) + 1, Len(s)) = suffix

\* The names of the model: "a" and "ba" (which ends with "a").
UserA  == <<"a">>
UserBA == <<"b", "a">>
PathR  == <<"r">>
PathS  == <<"s">>
\* github.token after mirrormaker.py:109
github_token == <<"t">>

\* f"{owner}/{name}"
Slug(owner, name) == owner \o <<"/">> \o name

-----------------------------------------------------------------------------
\* gitlab.py, github.py: the pure tests.

\* gitlab.mirror_target_exists: some mirror has a non-empty url that ends with
\* some repository's full_name followed by ".git".
mirror_target_exists(repos, mirrors) ==
  \E i \in 1..Len(mirrors) : \E j \in 1..Len(repos) :
    /\ mirrors[i].has_url
    /\ mirrors[i].url # <<>>
    /\ EndsWith(mirrors[i].url, repos[j].full_name \o <<".git">>)

\* github.repo_exists
repo_exists(repos, repo_slug) ==
  \E j \in 1..Len(repos) : repos[j].full_name = repo_slug

-----------------------------------------------------------------------------
\* The GitLab projects of the model.  A project record of the GitLab API has
\* a namespace with a path, an owner when it belongs to a user, and a web_url;
\* the record of tests/test_mirrormaker.py:100 has none of them.

\* A user's own project: a/r, namespace a, owner a.
RepoUser ==
  [id |-> 1, path |-> PathR, path_with_namespace |-> Slug(UserA, PathR),
   has_namespace |-> TRUE, namespace_path |-> UserA,
   has_owner |-> TRUE, owner_username |-> UserA, has_web_url |-> TRUE]

\* A group's project: ba/s, namespace ba, no owner.
RepoGroup ==
  [id |-> 2, path |-> PathS, path_with_namespace |-> Slug(UserBA, PathS),
   has_namespace |-> TRUE, namespace_path |-> UserBA,
   has_owner |-> FALSE, owner_username |-> <<>>, has_web_url |-> TRUE]

\* The record of the test: only id, path and path_with_namespace.
RepoBare ==
  [id |-> 3, path |-> PathR, path_with_namespace |-> Slug(UserA, PathR),
   has_namespace |-> FALSE, namespace_path |-> <<>>,
   has_owner |-> FALSE, owner_username |-> <<>>, has_web_url |-> FALSE]

Repos == {RepoUser, RepoGroup, RepoBare}
RepoIds == {r.id : r \in Repos}

\* The listings GitLab may return: 1..MaxRepos projects, by ascending id.
Listings ==
  {s \in UNION {[1..n -> Repos] : n \in 1..MaxRepos} :
     \A i, j \in DOMAIN s : i < j => s[i].id < s[j].id}

-----------------------------------------------------------------------------
\* mirrormaker.py: the reconciliation.

\* gitlab_repo.get('owner', {}).get('username', '')
owner_username(gitlab_repo) ==
  IF gitlab_repo.has_owner THEN gitlab_repo.owner_username ELSE <<>>

\* mirrormaker.py:210 and :259-260:
\* github.user or gitlab_repo.get('namespace', {}).get('path', <owner username>)
github_username(user, gitlab_repo) ==
  IF user # <<>> THEN user
  ELSE IF gitlab_repo.has_namespace THEN gitlab_repo.namespace_path
  ELSE owner_username(gitlab_repo)

\* The outcome of reading a project's mirrors: lookup.ok says whether the
\* request (or the glab command) succeeded, lookup.mirrors is what the host holds.

\* gitlab.get_mirrors: the list, or GitLabError.
gitlab_get_mirrors(lookup) ==
  [raised |-> ~lookup.ok, value |-> IF lookup.ok THEN lookup.mirrors ELSE <<>>]

\* glab_cli.get_mirrors: the list, or [] when the command fails; never raises.
glab_cli_get_mirrors(lookup) ==
  [raised |-> FALSE, value |-> IF lookup.ok THEN lookup.mirrors ELSE <<>>]

Action(gitlab_repo, create_github, create_mirror) ==
  [gitlab_repo |-> gitlab_repo, create_github |-> create_github,
   create_mirror |-> create_mirror]

\* check_mirror_status without the return at mirrormaker.py:205-208.
check_mirror_status_NoShortCircuit(gitlab_repo, repos, glab, user, lookup) ==
  LET mirrors == IF glab THEN glab_cli_get_mirrors(lookup)
                 ELSE gitlab_get_mirrors(lookup)
  IN  IF mirrors.raised THEN Action(gitlab_repo, TRUE, TRUE)
      ELSE IF repo_exists(repos, Slug(github_username(user, gitlab_repo), gitlab_repo.path))
        THEN Action(gitlab_repo, FALSE, TRUE)
      ELSE Action(gitlab_repo, TRUE, TRUE)

\* check_mirror_status without the test of mirrormaker.py:211-212.
check_mirror_status_NoRepoTest(gitlab_repo, repos, glab, user, lookup) ==
  LET mirrors == IF glab THEN glab_cli_get_mirrors(lookup)
                 ELSE gitlab_get_mirrors(lookup)
  IN  IF mirrors.raised THEN Action(gitlab_repo, TRUE, TRUE)
      ELSE IF mirror_target_exists(repos, mirrors.value)
        THEN Action(gitlab_repo, FALSE, FALSE)
      ELSE Action(gitlab_repo, TRUE, TRUE)

\* check_mirror_status where the return at mirrormaker.py:205-208 clears
\* create_mirror only.
check_mirror_status_MirrorFlagOnly(gitlab_repo, repos, glab, user, lookup) ==
  LET mirrors == IF glab THEN glab_cli_get_mirrors(lookup)
                 ELSE gitlab_get_mirrors(lookup)
  IN  IF mirrors.raised THEN Action(gitlab_repo, TRUE, TRUE)
      ELSE IF mirror_target_exists(repos, mirrors.value)
        THEN Action(gitlab_repo, TRUE, FALSE)
      ELSE IF repo_exists(repos, Slug(github_username(user, gitlab_repo), gitlab_repo.path))
        THEN Action(gitlab_repo, FALSE, TRUE)
      ELSE Action(gitlab_repo, TRUE, TRUE)

\* mirrormaker.check_mirror_status
check_mirror_status(gitlab_repo, repos, glab, user, lookup) ==
  LET mirrors == IF glab THEN glab_cli_get_mirrors(lookup)
                 ELSE gitlab_get_mirrors(lookup)
  IN  IF mirrors.raised THEN Action(gitlab_repo, TRUE, TRUE)
      ELSE IF mirror_target_exists(repos, mirrors.value)
        THEN Action(gitlab_repo, FALSE, FALSE)
      ELSE IF repo_exists(repos, Slug(github_username(user, gitlab_repo), gitlab_repo.path))
        THEN Action(gitlab_repo, FALSE, TRUE)
      ELSE Action(gitlab_repo, TRUE, TRUE)

-----------------------------------------------------------------------------
\* mirrormaker.py, gitlab.py, github.py, glab_cli.py: the execution.

Call(op, pos, gitlab_repo, url, ok) ==
  [op |-> op, pos |-> pos, id |-> gitlab_repo.id, url |-> url, ok |-> ok]

\* github.create_repo: KeyError on a record without web_url (no request is
\* sent), else the POST, which raises GitHubError when it fails.
create_repo(gitlab_repo, pos, ok) ==
  Call("create_repo", pos, gitlab_repo, <<>>, gitlab_repo.has_web_url /\ ok)

\* create_mirror with a url that lacks the ".git" ending.
create_mirror_NoGitSuffix(gitlab_repo, token, user, pos, ok) ==
  LET u == IF user = <<>> THEN owner_username(gitlab_repo) ELSE user
  IN  Call("create_mirror", pos, gitlab_repo,
           <<"https://">> \o u \o <<":">> \o token \o <<"@", "github.com", "/">>
             \o u \o <<"/">> \o gitlab_repo.path,
           ok)

\* gitlab.create_mirror: the url embeds the user and the token.
create_mirror(gitlab_repo, token, user, pos, ok) ==
  LET u == IF user = <<>> THEN owner_username(gitlab_repo) ELSE user
  IN  Call("create_mirror", pos, gitlab_repo,
           <<"https://">> \o u \o <<":">> \o token \o <<"@", "github.com", "/">>
             \o u \o <<"/">> \o gitlab_repo.path \o <<".git">>,
           ok)

\* glab_cli.setup_mirror: True iff the command exits with 0; never raises.
setup_mirror(gitlab_repo, github_url, pos, ok) ==
  Call("setup_mirror", pos, gitlab_repo, github_url, ok)

\* perform_one without the fallback of mirrormaker.py:281-283.
perform_one_NoFallback(action, pos, glab, user, repoOk, cliOk, apiOk) ==
  LET gitlab_repo == action.gitlab_repo
      username == github_username(user, gitlab_repo)
      c1 == IF action.create_github
              THEN <<create_repo(gitlab_repo, pos, repoOk)>> ELSE <<>>
      raised == action.create_github /\ ~c1[1].ok
      github_url == <<"https://", "github.com", "/">> \o username \o <<"/">>
                      \o gitlab_repo.path \o <<".git">>
      cli == setup_mirror(gitlab_repo, github_url, pos, cliOk)
      api == create_mirror(gitlab_repo, github_token, username, pos, apiOk)
      c2 == IF raised \/ ~action.create_mirror THEN <<>>
            ELSE IF glab THEN <<cli>>
            ELSE <<api>>
  IN  c1 \o c2

\* perform_one where a failed create_mirror of the native backend is followed
\* by a setup_mirror.
perform_one_ReverseFallback(action, pos, glab, user, repoOk, cliOk, apiOk) ==
  LET gitlab_repo == action.gitlab_repo
      username == github_username(user, gitlab_repo)
      c1 == IF action.create_github
              THEN <<create_repo(gitlab_repo, pos, repoOk)>> ELSE <<>>
      raised == action.create_github /\ ~c1[1].ok
      github_url == <<"https://", "github.com", "/">> \o username \o <<"/">>
                      \o gitlab_repo.path \o <<".git">>
      cli == setup_mirror(gitlab_repo, github_url, pos, cliOk)
      api == create_mirror(gitlab_repo, github_token, username, pos, apiOk)
      c2 == IF raised \/ ~action.create_mirror THEN <<>>
            ELSE IF glab THEN (IF cli.ok THEN <<cli>> ELSE <<cli, api>>)
            ELSE (IF api.ok THEN <<api>> ELSE <<api, cli>>)
  IN  c1 \o c2

\* perform_one with a try block of its own for each of the two steps.
perform_one_SeparateTry(action, pos, glab, user, repoOk, cliOk, apiOk) ==
  LET gitlab_repo == action.gitlab_repo
      username == github_username(user, gitlab_repo)
      c1 == IF action.create_github
              THEN <<create_repo(gitlab_repo, pos, repoOk)>> ELSE <<>>
      github_url == <<"https://", "github.com", "/">> \o username \o <<"/">>
                      \o gitlab_repo.path \o <<".git">>
      cli == setup_mirror(gitlab_repo, github_url, pos, cliOk)
      api == create_mirror(gitlab_repo, github_token, username, pos, apiOk)
      c2 == IF ~action.create_mirror THEN <<>>
            ELSE IF glab THEN (IF cli.ok THEN <<cli>> ELSE <<cli, api>>)
            ELSE <<api>>
  IN  c1 \o c2

\* mirrormaker.perform_actions, one iteration of its loop: the calls it makes,
\* in order.  An exception ends the iteration.
perform_one(action, pos, glab, user, repoOk, cliOk, apiOk) ==
  LET gitlab_repo == action.gitlab_repo
      username == github_username(user, gitlab_repo)
      c1 == IF action.create_github
              THEN <<create_repo(gitlab_repo, pos, repoOk)>> ELSE <<>>
      raised == action.create_github /\ ~c1[1].ok
      github_url == <<"https://", "github.com", "/">> \o username \o <<"/">>
                      \o gitlab_repo.path \o <<".git">>
      cli == setup_mirror(gitlab_repo, github_url, pos, cliOk)
      api == create_mirror(gitlab_repo, github_token, username, pos, apiOk)
      c2 == IF raised \/ ~action.create_mirror THEN <<>>
            ELSE IF glab THEN (IF cli.ok THEN <<cli>> ELSE <<cli, api>>)
            ELSE <<api>>
  IN  c1 \o c2

\* The option alone, the configuration file ignored.
dry_run_in_effect_FlagOnly(cli, cfg) == cli = "true"

\* dry_run or config.config.get("dry_run", False), after
\* config.config.update(dry_run=dry_run) (mirrormaker.py:83, :150; config.py:59-63)
dry_run_in_effect(cli, cfg) ==
  LET updated == IF cli = "none" THEN cfg ELSE cli = "true"
  IN  cli = "true" \/ updated

-----------------------------------------------------------------------------
\* github.py, gitlab.py, glab_cli.py: listing and lookup.

\* A host serves a listing as pages, each but the last with a link to the next;
\* an account without repositories serves one empty page.

\* The loop of github.py:37-43 from page n on: the page is appended and the
\* next link, when there is one, is followed.
RECURSIVE FollowLinks(_, _)
FollowLinks(pages, n) ==
  pages[n] \o (IF n < Len(pages) THEN FollowLinks(pages, n + 1) ELSE <<>>)

\* github.get_repos with the forks left in.
github_get_repos_KeepForks(pages) == FollowLinks(pages, 1)

\* github.get_repos: every page, then the repositories that are not forks.
github_get_repos(pages) == SelectSeq(FollowLinks(pages, 1), LAMBDA x : ~x.fork)

\* gitlab.get_repos: one request, what it returns.
gitlab_get_repos(pages) == pages[1]

\* glab_cli.get_repos: "glab api ... --paginate", by which glab fetches all
\* pages of the result.
glab_cli_get_repos(pages) == FollowLinks(pages, 1)

\* GitLab: the username GET /user returns for the GitLab token.
glUser == UserA

\* "/" in shorthand
HasSlash(s) == \E n \in 1..Len(s) : s[n] = "/"

\* requests.utils.quote(s, safe="") and str.replace("/", "%2F") on the names of
\* the model, and what the host makes of the result.
quote(s) == [n \in 1..Len(s) |-> IF s[n] = "/" THEN "%2F" ELSE s[n]]
unquote(s) == [n \in 1..Len(s) |-> IF s[n] = "%2F" THEN "/" ELSE s[n]]

\* shorthand.rsplit("/", maxsplit=1)
rsplit(s) ==
  LET last == CHOOSE n \in 1..Len(s) :
                s[n] = "/" /\ \A m \in (n + 1)..Len(s) : s[m] # "/"
  IN  <<SubSeq(s, 1, last - 1), SubSeq(s, last + 1, Len(s))>>

\* gitlab.get_repo_by_shorthand, gitlab.py:80-88: the project the request names.
gitlab_project_id(shorthand, user) ==
  LET parts == IF ~HasSlash(shorthand) THEN <<user, shorthand>> ELSE rsplit(shorthand)
  IN  quote(Slug(parts[1], parts[2]))

\* glab_cli.get_repo_by_path, glab_cli.py:118-119: the project the command names.
glab_encoded_path(repo_path) == quote(repo_path)

\* mirrormaker.py:154-156: what leaves mirrormaker() for an exception raised in
\* its try block, given by the name of its type; "0" when there is none.
crossing_AsRaised(raised) == IF raised = "none" THEN "0" ELSE raised

crossing(raised) == IF raised = "none" THEN "0" ELSE "ClickException"

\* mirrormaker.py:102-106: the exception the token tests raise, if any; glab
\* is use_glab_cli at that point.
token_check(has_github, has_gitlab, glab) ==
  IF ~has_github THEN "ClickException"
  ELSE IF ~has_gitlab /\ ~glab THEN "ClickException"
  ELSE "none"

\* glab_cli.is_glab_available where any exit of the tool counts.
is_glab_available_AnyExit(outcome) == outcome # "error"

\* glab_cli.is_glab_available: the tool ran and its exit code is 0.
is_glab_available(outcome) == outcome = "zero"

-----------------------------------------------------------------------------
\* The hosts.

GithubRepo(owner, name, fork) == [full_name |-> Slug(owner, name), fork |-> fork]
Mirror(url) == [has_url |-> TRUE, url |-> url]

\* A mirror as GitLab returns it, the credentials masked
\* (tests/test_mirrormaker.py:34).
MaskedUrl(owner, name) ==
  <<"https://", "*", ":", "*", "@", "github.com", "/">> \o Slug(owner, name) \o <<".git">>

\* POST /user/repos creates the repository under the account of the token and
\* is refused when the account already has a repository of that name.
NameTaken(gitlab_repo) ==
  \E j \in 1..Len(hostGithub) :
    hostGithub[j].full_name = Slug(ghLogin, gitlab_repo.path)

\* The hosts after the successful calls among cs, the calls of one iteration
\* for gitlab_repo.
GithubAfter(gitlab_repo, cs) ==
  hostGithub \o
    [k \in 1..Len(SelectSeq(cs, LAMBDA c : c.op = "create_repo" /\ c.ok)) |->
       GithubRepo(ghLogin, gitlab_repo.path, FALSE)]

MirrorsAfter(gitlab_repo, cs) ==
  LET made == SelectSeq(cs, LAMBDA c : c.op # "create_repo" /\ c.ok)
  IN  [hostMirrors EXCEPT ![gitlab_repo.id] =
         @ \o [k \in 1..Len(made) |-> Mirror(made[k].url)]]

\* The failed calls among cs that the host could have served.
FaultsIn(gitlab_repo, cs) ==
  Len(SelectSeq(cs, LAMBDA c :
        /\ ~c.ok
        /\ ~(c.op = "create_repo"
              /\ (NameTaken(gitlab_repo) \/ ~gitlab_repo.has_web_url))))

\* What a run leaves for the next one to be compared with; ran says that it
\* went through perform_actions, actions and lookups are its plan and the
\* outcomes of its mirror lookups.
NoRun == [ran |-> FALSE, dry |-> FALSE, calls_ok |-> TRUE,
          repo_made |-> {}, mirror_made |-> {}, mirror_failed |-> {},
          actions |-> <<>>, lookups |-> <<>>]

Summary ==
  [ran |-> pc = "done",
   dry |-> dry_run_in_effect(cli_dry_run, cfg_dry_run),
   calls_ok |-> \A k \in 1..Len(calls) : calls[k].ok,
   repo_made |-> {calls[k].id : k \in {n \in 1..Len(calls) :
                     calls[n].op = "create_repo" /\ calls[n].ok}},
   mirror_made |-> {calls[k].id : k \in {n \in 1..Len(calls) :
                     calls[n].op # "create_repo" /\ calls[n].ok}},
   mirror_failed |-> {calls[k].id : k \in {n \in 1..Len(calls) :
                     calls[n].op = "create_mirror" /\ ~calls[n].ok}},
   actions |-> actions,
   lookups |-> lookups]

-----------------------------------------------------------------------------
\* The program: mirrormaker(), run after run against the same hosts.

\* The first run is about to start.
RunInit ==
  /\ run = 1
  /\ pc = "begin"
  /\ gitlab_repos = <<>>
  /\ github_repos = <<>>
  /\ actions = <<>>
  /\ lookups = <<>>
  /\ idx = 1
  /\ calls = <<>>
  /\ prev = NoRun
  /\ faults = 0
  /\ use_glab_cli = FALSE
  /\ log = <<>>
  /\ cause = "none"
  /\ exit = "none"

\* The result of a listing that has not been made.
NotListed == [done |-> FALSE, value |-> <<>>]

\* The single call of f_args that is not made, and its result.
NoCall == [fn |-> "none"]
NotCalled == [done |-> FALSE]
CallOff == f_args = NoCall /\ f_result = NotCalled

\* No single call of a function is under study.
FnOff ==
  /\ CallOff
  /\ m_github_repos = <<>>
  /\ m_mirrors = <<>>
  /\ m_result = "none"
  /\ l_host = "none"
  /\ l_pages = <<>>
  /\ l_result = NotListed
  /\ c_key = "none"
  /\ c_cli = "none"
  /\ c_file = "absent"
  /\ c_value = "unset"

Init ==
  /\ hostGitlab \in Listings
  /\ hostGithub \in {<<>>, <<GithubRepo(UserA, PathR, FALSE)>>,
                     <<GithubRepo(UserA, PathR, TRUE)>>}
  /\ hostMirrors \in
       {[i \in RepoIds |-> <<>>],
        [i \in RepoIds |-> IF i = RepoGroup.id THEN <<>>
                           ELSE <<Mirror(MaskedUrl(UserA, PathR))>>]}
  /\ ghLogin \in {UserA, UserBA}
  /\ glabExit = "zero"
  /\ github_user \in {<<>>, UserA}
  /\ cli_dry_run \in {"none", "true", "false"}
  /\ cfg_dry_run \in BOOLEAN
  /\ use_glab \in BOOLEAN
  /\ has_github_token = TRUE
  /\ has_gitlab_token = TRUE
  /\ repo = <<>>
  /\ save_config = FALSE
  /\ RunInit
  /\ FnOff

\* The hosts of Spec and StartSpec serve a listing on one page.
OnePage(host) == <<host>>

\* A request or command of the run other than a creation call: the backend it
\* went through, the project path it names (<<>> when none), how it ended.
Event(op, glab, path, ok) == [op |-> op, glab |-> glab, path |-> path, ok |-> ok]

\* GitLab: the projects at a path, in host order.
ProjectsAt(path) == SelectSeq(hostGitlab, LAMBDA x : x.path_with_namespace = path)

\* mirrormaker.py:133-137: the source snapshot of a run without REPO, by the
\* backend in use: what is raised, what is returned, what was sent.
get_all(glab, ok) ==
  IF glab
    THEN [raised |-> "none",
          value |-> IF ok THEN glab_cli_get_repos(OnePage(hostGitlab)) ELSE <<>>,
          events |-> <<Event("get_repos", TRUE, <<>>, ok)>>]
    ELSE [raised |-> IF ok THEN "none" ELSE "GitLabError",
          value |-> IF ok THEN gitlab_get_repos(OnePage(hostGitlab)) ELSE <<>>,
          events |-> <<Event("get_repos", FALSE, <<>>, ok)>>]

\* mirrormaker.py:123-131: the source snapshot of a run with REPO.  served says
\* that the host answers; the lookup succeeds when it also has the project.
get_one(shorthand, glab, userOk, served) ==
  IF glab
    THEN LET path == unquote(glab_encoded_path(shorthand))
             ok == served /\ ProjectsAt(path) # <<>>
         IN  [raised |-> IF ok THEN "none" ELSE "ClickException",
              value |-> IF ok THEN <<ProjectsAt(path)[1]>> ELSE <<>>,
              events |-> <<Event("get_repo", TRUE, path, ok)>>]
    ELSE LET bare == ~HasSlash(shorthand)
             user == IF bare THEN <<Event("get_user", FALSE, <<>>, userOk)>> ELSE <<>>
             path == unquote(gitlab_project_id(shorthand, glUser))
             ok == served /\ ProjectsAt(path) # <<>>
         IN  IF bare /\ ~userOk
               THEN [raised |-> "GitLabError", value |-> <<>>, events |-> user]
               ELSE [raised |-> IF ok THEN "none" ELSE "GitLabError",
                     value |-> IF ok THEN <<ProjectsAt(path)[1]>> ELSE <<>>,
                     events |-> user \o <<Event("get_repo", FALSE, path, ok)>>]

\* The failed requests among es that the host could have served.
FaultsOf(es) ==
  Len(SelectSeq(es, LAMBDA e :
        ~e.ok /\ ~(e.op = "get_repo" /\ ProjectsAt(e.path) = <<>>)))

\* mirrormaker.py:55-111: the options are merged, --save-config without REPO
\* returns, the tokens are tested.  (What --save-config writes is what the
\* next run, given the same options, works out anyway.)
Begin ==
  /\ pc = "begin"
  /\ use_glab_cli' = use_glab
  /\ LET return == save_config /\ repo = <<>>
         raised == IF return THEN "none"
                   ELSE token_check(has_github_token, has_gitlab_token, use_glab)
         over == return \/ raised # "none"
     IN  /\ cause' = raised
         /\ exit' = IF over THEN crossing(raised) ELSE "none"
         /\ pc' = IF over THEN "ended" ELSE "probe"
  /\ UNCHANGED <<run, gitlab_repos, github_repos, actions, lookups, idx, calls, prev,
                 faults, log>>
  /\ UNCHANGED <<hostVars, cfgVars, fnVars>>

\* mirrormaker.py:114-119: the probe, when glab was asked for.
Probe ==
  /\ pc = "probe"
  /\ IF use_glab_cli
       THEN /\ log' = Append(log, Event("probe", TRUE, <<>>, is_glab_available(glabExit)))
            /\ use_glab_cli' = is_glab_available(glabExit)
       ELSE UNCHANGED <<log, use_glab_cli>>
  /\ pc' = "start"
  /\ UNCHANGED <<run, gitlab_repos, github_repos, actions, lookups, idx, calls, prev,
                 faults, cause, exit>>
  /\ UNCHANGED <<hostVars, cfgVars, fnVars>>

\* mirrormaker.py:121-145: the two snapshots.  An exception ends the run, and
\* so does an empty snapshot of a run without REPO.
GetRepos ==
  /\ pc = "start"
  /\ \E userOk, glOk, ghOk \in BOOLEAN :
       LET src == IF repo # <<>> THEN get_one(repo, use_glab_cli, userOk, glOk)
                  ELSE get_all(use_glab_cli, glOk)
           return == src.raised = "none" /\ repo = <<>> /\ src.value = <<>>
           target == IF src.raised # "none" \/ return THEN <<>>
                     ELSE <<Event("get_repos_github", FALSE, <<>>, ghOk)>>
           raised == IF src.raised # "none" THEN src.raised
                     ELSE IF target # <<>> /\ ~ghOk THEN "GitHubError"
                     ELSE "none"
           over == return \/ raised # "none"
       IN  /\ faults + FaultsOf(src.events \o target) <= MaxFaults
           /\ faults' = faults + FaultsOf(src.events \o target)
           /\ log' = log \o src.events \o target
           /\ gitlab_repos' = src.value
           /\ github_repos' = IF over THEN <<>>
                              ELSE github_get_repos(OnePage(hostGithub))
           /\ cause' = raised
           /\ exit' = IF over THEN crossing(raised) ELSE "none"
           /\ pc' = IF over THEN "ended" ELSE "check"
  /\ idx' = 1
  /\ UNCHANGED <<run, actions, lookups, calls, prev, use_glab_cli>>
  /\ UNCHANGED <<hostVars, cfgVars, fnVars>>

\* find_actions_to_perform where a failed read spoils the reads after it.
FindAction_Sticky ==
  /\ pc = "check"
  /\ idx <= Len(gitlab_repos)
  /\ \E ok \in BOOLEAN :
       LET gitlab_repo == gitlab_repos[idx]
           lookup == [ok |-> ok /\ \A k \in 1..Len(lookups) : lookups[k],
                      mirrors |-> hostMirrors[gitlab_repo.id]]
       IN  /\ actions' = Append(actions,
                 check_mirror_status(gitlab_repo, github_repos, use_glab_cli,
                                     github_user, lookup))
           /\ lookups' = Append(lookups, ok)
           /\ log' = Append(log, Event("get_mirrors", use_glab_cli, <<>>, ok))
           /\ ~ok => faults < MaxFaults
           /\ faults' = IF ok THEN faults ELSE faults + 1
  /\ idx' = idx + 1
  /\ UNCHANGED <<run, pc, gitlab_repos, github_repos, calls, prev, use_glab_cli,
                 cause, exit>>
  /\ UNCHANGED <<hostVars, cfgVars, fnVars>>

\* find_actions_to_perform where a failed read skips the repository.
FindAction_Drop ==
  /\ pc = "check"
  /\ idx <= Len(gitlab_repos)
  /\ \E ok \in BOOLEAN :
       LET gitlab_repo == gitlab_repos[idx]
           lookup == [ok |-> ok, mirrors |-> hostMirrors[gitlab_repo.id]]
       IN  /\ actions' = IF ok THEN Append(actions,
                 check_mirror_status(gitlab_repo, github_repos, use_glab_cli,
                                     github_user, lookup))
                         ELSE actions
           /\ lookups' = Append(lookups, ok)
           /\ log' = Append(log, Event("get_mirrors", use_glab_cli, <<>>, ok))
           /\ ~ok => faults < MaxFaults
           /\ faults' = IF ok THEN faults ELSE faults + 1
  /\ idx' = idx + 1
  /\ UNCHANGED <<run, pc, gitlab_repos, github_repos, calls, prev, use_glab_cli,
                 cause, exit>>
  /\ UNCHANGED <<hostVars, cfgVars, fnVars>>

\* find_actions_to_perform where a failed read makes the run go on with the
\* native backend.
FindAction_SwitchBackend ==
  /\ pc = "check"
  /\ idx <= Len(gitlab_repos)
  /\ \E ok \in BOOLEAN :
       LET gitlab_repo == gitlab_repos[idx]
           lookup == [ok |-> ok, mirrors |-> hostMirrors[gitlab_repo.id]]
       IN  /\ actions' = Append(actions,
                 check_mirror_status(gitlab_repo, github_repos, use_glab_cli,
                                     github_user, lookup))
           /\ lookups' = Append(lookups, ok)
           /\ log' = Append(log, Event("get_mirrors", use_glab_cli, <<>>, ok))
           /\ ~ok => faults < MaxFaults
           /\ faults' = IF ok THEN faults ELSE faults + 1
           /\ use_glab_cli' = (ok /\ use_glab_cli)
  /\ idx' = idx + 1
  /\ UNCHANGED <<run, pc, gitlab_repos, github_repos, calls, prev, cause, exit>>
  /\ UNCHANGED <<hostVars, cfgVars, fnVars>>

\* mirrormaker.find_actions_to_perform, one iteration of its loop: the mirrors
\* of the next repository are read (the read succeeds or fails) and the action
\* check_mirror_status returns is appended.
FindAction ==
  /\ pc = "check"
  /\ idx <= Len(gitlab_repos)
  /\ \E ok \in BOOLEAN :
       LET gitlab_repo == gitlab_repos[idx]
           lookup == [ok |-> ok, mirrors |-> hostMirrors[gitlab_repo.id]]
       IN  /\ actions' = Append(actions,
                 check_mirror_status(gitlab_repo, github_repos, use_glab_cli,
                                     github_user, lookup))
           /\ lookups' = Append(lookups, ok)
           /\ log' = Append(log, Event("get_mirrors", use_glab_cli, <<>>, ok))
           /\ ~ok => faults < MaxFaults
           /\ faults' = IF ok THEN faults ELSE faults + 1
  /\ idx' = idx + 1
  /\ UNCHANGED <<run, pc, gitlab_repos, github_repos, calls, prev, use_glab_cli,
                 cause, exit>>
  /\ UNCHANGED <<hostVars, cfgVars, fnVars>>

\* mirrormaker.py:148-150 and perform_actions up to its loop: the plan is
\* complete; a dry run returns here.
perform_actions_enter(dry_run, plan) ==
  IF dry_run \/ Len(plan) = 0 THEN "done" ELSE "perform"

PerformActions ==
  /\ pc = "check"
  /\ idx > Len(gitlab_repos)
  /\ pc' = perform_actions_enter(dry_run_in_effect(cli_dry_run, cfg_dry_run), actions)
  /\ exit' = IF pc' = "done" THEN crossing("none") ELSE "none"
  /\ idx' = 1
  /\ UNCHANGED <<run, gitlab_repos, github_repos, actions, lookups, calls, prev, faults,
                 use_glab_cli, log, cause>>
  /\ UNCHANGED <<hostVars, cfgVars, fnVars>>

\* perform_actions without the try/except of mirrormaker.py:257, :287: the
\* first failed call ends the loop.
PerformAction_Abort ==
  /\ pc = "perform"
  /\ idx <= Len(actions)
  /\ \E repoOk, cliOk, apiOk \in BOOLEAN :
       /\ repoOk => ~NameTaken(actions[idx].gitlab_repo)
       /\ LET cs == perform_one(actions[idx], idx, use_glab_cli, github_user,
                                repoOk, cliOk, apiOk)
          IN  /\ calls' = calls \o cs
              /\ hostGithub' = GithubAfter(actions[idx].gitlab_repo, cs)
              /\ hostMirrors' = MirrorsAfter(actions[idx].gitlab_repo, cs)
              /\ faults + FaultsIn(actions[idx].gitlab_repo, cs) <= MaxFaults
              /\ faults' = faults + FaultsIn(actions[idx].gitlab_repo, cs)
              /\ pc' = IF idx = Len(actions) \/ (Len(cs) > 0 /\ ~cs[Len(cs)].ok)
                         THEN "done" ELSE "perform"
  /\ exit' = IF pc' = "done" THEN crossing("none") ELSE "none"
  /\ idx' = idx + 1
  /\ UNCHANGED <<run, gitlab_repos, github_repos, actions, lookups, prev, use_glab_cli,
                 log, cause>>
  /\ UNCHANGED <<hostGitlab, ghLogin, glabExit, cfgVars, fnVars>>

\* mirrormaker.perform_actions, one iteration of its loop.
PerformAction ==
  /\ pc = "perform"
  /\ idx <= Len(actions)
  /\ \E repoOk, cliOk, apiOk \in BOOLEAN :
       /\ repoOk => ~NameTaken(actions[idx].gitlab_repo)
       /\ LET cs == perform_one(actions[idx], idx, use_glab_cli, github_user,
                                repoOk, cliOk, apiOk)
          IN  /\ calls' = calls \o cs
              /\ hostGithub' = GithubAfter(actions[idx].gitlab_repo, cs)
              /\ hostMirrors' = MirrorsAfter(actions[idx].gitlab_repo, cs)
              /\ faults + FaultsIn(actions[idx].gitlab_repo, cs) <= MaxFaults
              /\ faults' = faults + FaultsIn(actions[idx].gitlab_repo, cs)
  /\ idx' = idx + 1
  /\ pc' = IF idx = Len(actions) THEN "done" ELSE "perform"
  /\ exit' = IF pc' = "done" THEN crossing("none") ELSE "none"
  /\ UNCHANGED <<run, gitlab_repos, github_repos, actions, lookups, prev, use_glab_cli,
                 log, cause>>
  /\ UNCHANGED <<hostGitlab, ghLogin, glabExit, cfgVars, fnVars>>

\* The program is run again, with the same options, against the hosts as the
\* run before left them.
NextRun ==
  /\ pc \in {"done", "ended"}
  /\ run < MaxRuns
  /\ run' = run + 1
  /\ pc' = "begin"
  /\ prev' = Summary
  /\ gitlab_repos' = <<>>
  /\ github_repos' = <<>>
  /\ actions' = <<>>
  /\ lookups' = <<>>
  /\ idx' = 1
  /\ calls' = <<>>
  /\ use_glab_cli' = FALSE
  /\ log' = <<>>
  /\ cause' = "none"
  /\ exit' = "none"
  /\ UNCHANGED <<faults, hostVars, cfgVars, fnVars>>

Next ==
  \/ Begin
  \/ Probe
  \/ GetRepos
  \/ FindAction
  \/ PerformActions
  \/ PerformAction
  \/ NextRun

Spec == Init /\ [][Next]_vars

-----------------------------------------------------------------------------
\* One run of the program from any command line and machine: with or without
\* the tokens, glab asked for or not and installed or not, with or without
\* REPO (a bare name, a full path, a path GitLab does not have) and
\* --save-config, against an account with 0 to MaxRepos projects.

Shorthands == {<<>>, PathR, Slug(UserA, PathR), Slug(UserA, PathS)}

StartInit ==
  /\ hostGitlab \in {<<>>} \cup {l \in Listings : \A i \in DOMAIN l : l[i] # RepoBare}
  /\ hostGithub \in {<<>>, <<GithubRepo(UserA, PathR, FALSE)>>}
  /\ hostMirrors = [i \in RepoIds |-> <<>>]
  /\ ghLogin = UserA
  /\ glabExit \in {"zero", "nonzero", "error"}
  /\ github_user = <<>>
  /\ cli_dry_run \in {"none", "true"}
  /\ cfg_dry_run = FALSE
  /\ use_glab \in BOOLEAN
  /\ has_github_token \in BOOLEAN
  /\ has_gitlab_token \in BOOLEAN
  /\ repo \in Shorthands
  /\ save_config \in BOOLEAN
  /\ RunInit
  /\ FnOff

StartNext ==
  \/ Begin
  \/ Probe
  \/ GetRepos
  \/ FindAction
  \/ PerformActions
  \/ PerformAction

StartSpec == StartInit /\ [][StartNext]_vars

-----------------------------------------------------------------------------
\* A single call of gitlab.mirror_target_exists on arbitrary arguments.

\* The urls of the arguments: with credentials, without, of a namespace that
\* ends like another one, of another project, without ".git"; and a mirror
\* record without a url.
MatchMirrors ==
  {Mirror(MaskedUrl(UserA, PathR)),
   Mirror(<<"https://", "github.com", "/">> \o Slug(UserA, PathR) \o <<".git">>),
   Mirror(<<"https://", "github.com", "/">> \o Slug(UserBA, PathR) \o <<".git">>),
   Mirror(<<"https://", "github.com", "/">> \o Slug(UserA, PathS) \o <<".git">>),
   Mirror(<<"https://", "github.com", "/">> \o Slug(UserA, PathR)),
   [has_url |-> FALSE, url |-> <<>>]}

MatchRepos ==
  {GithubRepo(UserA, PathR, FALSE), GithubRepo(UserBA, PathR, FALSE),
   GithubRepo(UserA, PathS, FALSE)}

SeqsUpTo(S, n) == UNION {[1..k -> S] : k \in 0..n}

\* No run of the program is under study.
RunOff ==
  /\ hostGitlab = <<>>
  /\ hostGithub = <<>>
  /\ hostMirrors = [i \in RepoIds |-> <<>>]
  /\ ghLogin = UserA
  /\ glabExit = "zero"
  /\ github_user = <<>>
  /\ cli_dry_run = "none"
  /\ cfg_dry_run = FALSE
  /\ use_glab = FALSE
  /\ has_github_token = TRUE
  /\ has_gitlab_token = TRUE
  /\ repo = <<>>
  /\ save_config = FALSE
  /\ run = 1
  /\ pc = "off"
  /\ gitlab_repos = <<>>
  /\ github_repos = <<>>
  /\ actions = <<>>
  /\ lookups = <<>>
  /\ idx = 1
  /\ calls = <<>>
  /\ prev = NoRun
  /\ faults = 0
  /\ use_glab_cli = FALSE
  /\ log = <<>>
  /\ cause = "none"
  /\ exit = "none"

MatchInit ==
  /\ m_github_repos \in SeqsUpTo(MatchRepos, MaxLen)
  /\ m_mirrors \in SeqsUpTo(MatchMirrors, MaxLen)
  /\ m_result = "none"
  /\ l_host = "none"
  /\ l_pages = <<>>
  /\ l_result = NotListed
  /\ c_key = "none"
  /\ c_cli = "none"
  /\ c_file = "absent"
  /\ c_value = "unset"
  /\ CallOff
  /\ RunOff

MirrorTargetExists ==
  /\ pc = "off"
  /\ m_result = "none"
  /\ m_result' = IF mirror_target_exists(m_github_repos, m_mirrors)
                   THEN "true" ELSE "false"
  /\ UNCHANGED <<m_github_repos, m_mirrors, l_host, l_pages, l_result,
                 c_key, c_cli, c_file, c_value, f_args, f_result,
                 hostVars, cfgVars, runVars>>

MatchSpec == MatchInit /\ [][MirrorTargetExists]_vars

-----------------------------------------------------------------------------
\* A single listing of a host that serves 1 to MaxPages pages of 0 to
\* MaxPerPage repositories, by github.get_repos, gitlab.get_repos or
\* glab_cli.get_repos.

ListGithub ==
  {GithubRepo(UserA, PathR, FALSE), GithubRepo(UserA, PathS, TRUE),
   GithubRepo(UserBA, PathR, FALSE), GithubRepo(UserBA, PathS, TRUE)}
ListGitlab == {RepoUser, RepoGroup, RepoBare}

\* The pages one after the other.
RECURSIVE Flatten(_)
Flatten(pages) == IF pages = <<>> THEN <<>> ELSE Head(pages) \o Flatten(Tail(pages))

\* The ways a host serves repositories of S: every page but the last is full,
\* a page that follows another is not empty, no repository comes twice.
PagesOf(S) ==
  {p \in UNION {[1..n -> SeqsUpTo(S, MaxPerPage)] : n \in 1..MaxPages} :
     /\ \A n \in 1..(Len(p) - 1) : Len(p[n]) = MaxPerPage
     /\ Len(p) > 1 => p[Len(p)] # <<>>
     /\ \A i, j \in 1..Len(Flatten(p)) : i # j => Flatten(p)[i] # Flatten(p)[j]}

ListInit ==
  /\ \/ l_host = "github" /\ l_pages \in PagesOf(ListGithub)
     \/ l_host \in {"gitlab", "glab"} /\ l_pages \in PagesOf(ListGitlab)
  /\ l_result = NotListed
  /\ m_github_repos = <<>>
  /\ m_mirrors = <<>>
  /\ m_result = "none"
  /\ c_key = "none"
  /\ c_cli = "none"
  /\ c_file = "absent"
  /\ c_value = "unset"
  /\ CallOff
  /\ RunOff

ListRepos ==
  /\ pc = "off"
  /\ l_host # "none"
  /\ ~l_result.done
  /\ l_result' =
       [done |-> TRUE,
        value |-> CASE l_host = "github" -> github_get_repos(l_pages)
                    [] l_host = "gitlab" -> gitlab_get_repos(l_pages)
                    [] l_host = "glab" -> glab_cli_get_repos(l_pages)]
  /\ UNCHANGED <<l_host, l_pages, m_github_repos, m_mirrors, m_result,
                 c_key, c_cli, c_file, c_value, f_args, f_result,
                 hostVars, cfgVars, runVars>>

ListSpec == ListInit /\ [][ListRepos]_vars

-----------------------------------------------------------------------------
\* The value in effect for a single option, from its value on the command line
\* and its value in the configuration file.  Values are written as strings:
\* "true" and "false" for booleans, "" for the empty string; "none" is an
\* option that was not given (None) and "absent" a key the file does not have.

StringKeys == {"github_token", "gitlab_token", "github_user"}
BoolKeys == {"dry_run", "use_glab_cli", "allow_divergence", "protected_branches_only"}
Keys == StringKeys \cup BoolKeys \cup {"verbose", "glab_path", "direction"}

\* What the command line can say, by option (mirrormaker.py:24-35).
CliValues(key) ==
  CASE key \in StringKeys -> {"none", "x"}
    [] key \in BoolKeys -> {"none", "true", "false"}
    [] key = "verbose" -> {"none", "true"}
    [] key = "glab_path" -> {"none", "x"}
    [] key = "direction" -> {"none", "push", "pull"}

FileValues(key) ==
  CASE key \in StringKeys -> {"absent", "", "y"}
    [] key \in BoolKeys \cup {"verbose"} -> {"absent", "true", "false"}
    [] key = "glab_path" -> {"absent", "y"}
    [] key = "direction" -> {"absent", "push", "pull"}

\* config.DEFAULT_CONFIG
DEFAULT_CONFIG(key) ==
  CASE key \in StringKeys -> ""
    [] key \in BoolKeys \cup {"verbose"} -> "false"
    [] key = "glab_path" -> "glab"
    [] key = "direction" -> "push"

\* Config.load_config: the keys of the file over the defaults.
load_config(key, file) == IF file = "absent" THEN DEFAULT_CONFIG(key) ELSE file

\* Config.update for one key: set unless the value is None.
update(config, value) == IF value # "none" THEN value ELSE config

\* What click hands to mirrormaker(): None for an option that was not given,
\* but False for the flag --verbose (is_flag, mirrormaker.py:28).
click_value(key, cli) == IF key = "verbose" /\ cli = "none" THEN "false" ELSE cli

\* Python truth of a value, and "a or b".
truthy(v) == v \notin {"none", "", "false"}
or(a, b) == IF truthy(a) THEN a ELSE b

\* mirrormaker.py:62-110, :150 and the readers of the configuration
\* (glab_cli.py:17, :67-73): the value the run works with.
effective(key, cli, file) ==
  LET arg == click_value(key, cli)
      config == load_config(key, file)
  IN  CASE key \in StringKeys -> or(arg, update(config, arg))
        [] key = "dry_run" ->
             IF dry_run_in_effect(arg, config = "true") THEN "true" ELSE "false"
        [] key = "verbose" -> or(arg, update(config, arg))
        [] key = "use_glab_cli" -> IF arg # "none" THEN arg ELSE config
        [] key = "glab_path" -> IF truthy(arg) THEN update(config, arg) ELSE config
        [] key = "direction" -> IF truthy(arg) THEN arg ELSE config
        [] key \in {"allow_divergence", "protected_branches_only"} ->
             IF arg # "none" THEN arg ELSE config

ConfigInit ==
  /\ c_key \in Keys
  /\ c_cli \in CliValues(c_key)
  /\ c_file \in FileValues(c_key)
  /\ c_value = "unset"
  /\ m_github_repos = <<>>
  /\ m_mirrors = <<>>
  /\ m_result = "none"
  /\ l_host = "none"
  /\ l_pages = <<>>
  /\ l_result = NotListed
  /\ CallOff
  /\ RunOff

Configure ==
  /\ pc = "off"
  /\ c_key # "none"
  /\ c_value = "unset"
  /\ c_value' = effective(c_key, c_cli, c_file)
  /\ UNCHANGED <<c_key, c_cli, c_file, m_github_repos, m_mirrors, m_result,
                 l_host, l_pages, l_result, f_args, f_result,
                 hostVars, cfgVars, runVars>>

ConfigSpec == ConfigInit /\ [][Configure]_vars

-----------------------------------------------------------------------------
\* config.py: a single call of Config.update on a configuration.  A dict is a
\* function from its keys; None is written "none".

\* Some keys of DEFAULT_CONFIG, each with the values it may hold, and a key
\* the configuration does not have.
ConfigKeys == {"github_user", "dry_run"}
KwargKeys == ConfigKeys \cup {"unknown"}
ConfigValues(key) == IF key = "dry_run" THEN {"false", "true"} ELSE {"", "x"}
KwargValues(key) == IF key = "dry_run" THEN {"none", "false", "true"}
                    ELSE {"none", "", "y"}

\* The configurations self.config may be.
Configs == {c \in [ConfigKeys -> {"false", "true", "", "x"}] :
              \A key \in ConfigKeys : c[key] \in ConfigValues(key)}

\* The keyword arguments of a call, in the order given: pairs <<key, value>>
\* with distinct keys.
Kwargs ==
  {k \in SeqsUpTo(KwargKeys \X {"none", "false", "true", "", "y"},
                  Cardinality(KwargKeys)) :
     /\ \A i \in 1..Len(k) : k[i][2] \in KwargValues(k[i][1])
     /\ \A i, j \in 1..Len(k) : i # j => k[i][1] # k[j][1]}

\* d[key] = value
setitem(d, key, value) ==
  [x \in DOMAIN d \cup {key} |-> IF x = key THEN value ELSE d[x]]

\* The body of the loop with every given key stored, known or not.
update_item_AnyKey(d, key, value) ==
  IF value # "none" THEN setitem(d, key, value) ELSE d

\* The body of the loop of Config.update (config.py:62-63).
update_item(d, key, value) ==
  IF key \in DOMAIN d /\ value # "none" THEN setitem(d, key, value) ELSE d

\* Config.update: the loop over kwargs.items().
RECURSIVE Config_update(_, _)
Config_update(d, kwargs) ==
  IF kwargs = <<>> THEN d
  ELSE Config_update(update_item(d, kwargs[1][1], kwargs[1][2]), Tail(kwargs))

\* Config.get: self.config.get(key, default)
Config_get(d, key, default) == IF key \in DOMAIN d THEN d[key] ELSE default

UpdateInit ==
  /\ f_args \in {[fn |-> "update", config |-> c, kwargs |-> k] :
                   c \in Configs, k \in Kwargs}
  /\ f_result = NotCalled
  /\ m_github_repos = <<>>
  /\ m_mirrors = <<>>
  /\ m_result = "none"
  /\ l_host = "none"
  /\ l_pages = <<>>
  /\ l_result = NotListed
  /\ c_key = "none"
  /\ c_cli = "none"
  /\ c_file = "absent"
  /\ c_value = "unset"
  /\ RunOff

UpdateConfig ==
  /\ pc = "off"
  /\ f_args.fn = "update"
  /\ ~f_result.done
  /\ f_result' = [done |-> TRUE,
                   config |-> Config_update(f_args.config, f_args.kwargs)]
  /\ UNCHANGED <<f_args, m_github_repos, m_mirrors, m_result, l_host, l_pages,
                 l_result, c_key, c_cli, c_file, c_value,
                 hostVars, cfgVars, runVars>>

UpdateSpec == UpdateInit /\ [][UpdateConfig]_vars

-----------------------------------------------------------------------------
\* glab_cli.py: a single call of a read (get_repos, get_repo_by_path,
\* get_mirrors) with the command it runs.

\* What glab prints is a text of these tokens: the brackets and the comma of a
\* JSON array, and two JSON objects.
Objects == {"{1}", "{2}"}
Tokens == {"[", "]", ","} \cup Objects
\* Longest text glab prints.
MaxText == 5

\* The command either cannot be started, or exits with a code after printing.
Commands ==
  {[launched |-> FALSE, returncode |-> 0, stdout |-> <<>>]}
    \cup {[launched |-> TRUE, returncode |-> rc, stdout |-> t] :
            rc \in {0, 1}, t \in SeqsUpTo(Tokens, MaxText)}

\* Python values: a list of objects, one object, or None.
List(objects) == [kind |-> "list", value |-> objects]
Dict(object) == [kind |-> "dict", value |-> <<object>>]
None == [kind |-> "None", value |-> <<>>]

\* What is between the brackets of an array: objects with commas between.
Items(text) == SubSeq(text, 2, Len(text) - 1)
IsArray(text) ==
  /\ Len(text) >= 2 /\ text[1] = "[" /\ text[Len(text)] = "]"
  /\ LET items == Items(text)
     IN  /\ items # <<>> => Len(items) % 2 = 1
         /\ \A i \in 1..Len(items) :
              IF i % 2 = 1 THEN items[i] \in Objects ELSE items[i] = ","

\* json.loads: the value, or JSONDecodeError.
json_loads(text) ==
  IF Len(text) = 1 /\ text[1] \in Objects
    THEN [raised |-> "none", value |-> Dict(text[1])]
  ELSE IF IsArray(text)
    THEN [raised |-> "none",
          value |-> List([i \in 1..((Len(text) - 1) \div 2) |-> Items(text)[2 * i - 1]])]
  ELSE [raised |-> "JSONDecodeError", value |-> None]

\* glab_cli.run_glab_command: the output and the exit code, or GlabCliError
\* when the command cannot be started.
run_glab_command(command) ==
  IF command.launched
    THEN [raised |-> "none", output |-> command.stdout,
          return_code |-> command.returncode]
    ELSE [raised |-> "GlabCliError", output |-> <<>>, return_code |-> 0]

\* The body of a read without its try ... except.
glab_read_NoExcept(command, failed) ==
  LET ran == run_glab_command(command)
  IN  IF ran.raised # "none" THEN [raised |-> ran.raised, value |-> None]
      ELSE IF ran.return_code # 0 THEN [raised |-> "none", value |-> failed]
      ELSE json_loads(ran.output)

\* The body the three reads share (glab_cli.py:94-105, :117-128, :140-150):
\* the value of failure on a non-zero exit code and on any exception, else
\* the parsed output.
glab_read(command, failed) ==
  LET ran == run_glab_command(command)
  IN  IF ran.raised # "none" THEN [raised |-> "none", value |-> failed]
      ELSE IF ran.return_code # 0 THEN [raised |-> "none", value |-> failed]
      ELSE LET parsed == json_loads(ran.output)
           IN  IF parsed.raised # "none" THEN [raised |-> "none", value |-> failed]
               ELSE parsed

\* glab_cli.get_repos, glab_cli.get_repo_by_path, glab_cli.get_mirrors
glab_get_repos(command) == glab_read(command, List(<<>>))
glab_get_repo_by_path(command) == glab_read(command, None)
glab_get_mirrors(command) == glab_read(command, List(<<>>))

Reads == {"get_repos", "get_repo_by_path", "get_mirrors"}

ReadInit ==
  /\ f_args \in {[fn |-> fn, command |-> c] : fn \in Reads, c \in Commands}
  /\ f_result = NotCalled
  /\ m_github_repos = <<>>
  /\ m_mirrors = <<>>
  /\ m_result = "none"
  /\ l_host = "none"
  /\ l_pages = <<>>
  /\ l_result = NotListed
  /\ c_key = "none"
  /\ c_cli = "none"
  /\ c_file = "absent"
  /\ c_value = "unset"
  /\ RunOff

GlabRead ==
  /\ pc = "off"
  /\ f_args.fn \in Reads
  /\ ~f_result.done
  /\ f_result' =
       LET returned == CASE f_args.fn = "get_repos" -> glab_get_repos(f_args.command)
                         [] f_args.fn = "get_repo_by_path" ->
                              glab_get_repo_by_path(f_args.command)
                         [] f_args.fn = "get_mirrors" -> glab_get_mirrors(f_args.command)
       IN  [done |-> TRUE, raised |-> returned.raised, value |-> returned.value]
  /\ UNCHANGED <<f_args, m_github_repos, m_mirrors, m_result, l_host, l_pages,
                 l_result, c_key, c_cli, c_file, c_value,
                 hostVars, cfgVars, runVars>>

ReadSpec == ReadInit /\ [][GlabRead]_vars

-----------------------------------------------------------------------------
\* mirrormaker.py, gitlab.py: the GitHub name that reconciliation tests for one
\* project, and the mirror calls that execution makes for the same project,
\* github.user and backend.

\* A username or a namespace path: empty, "a" or "ba".
Names == {<<>>, UserA, UserBA}

\* The project r with its namespace path and its owner's username each
\* absent, empty or present.
Optional == {<<FALSE, <<>>>>} \cup {<<TRUE, n>> : n \in Names}
Projects ==
  {[id |-> 1, path |-> PathR, path_with_namespace |-> Slug(UserA, PathR),
    has_namespace |-> ns[1], namespace_path |-> ns[2],
    has_owner |-> ow[1], owner_username |-> ow[2], has_web_url |-> TRUE] :
     ns \in Optional, ow \in Optional}

\* mirrormaker.py:210-211: the full name check_mirror_status looks for among
\* the GitHub repositories.
tested_name(user, gitlab_repo) ==
  Slug(github_username(user, gitlab_repo), gitlab_repo.path)

MirrorInit ==
  /\ f_args \in {[fn |-> "mirror", user |-> u, gitlab_repo |-> p, glab |-> g,
                    cli_ok |-> c] :
                   u \in Names, p \in Projects, g \in BOOLEAN, c \in BOOLEAN}
  /\ f_result = NotCalled
  /\ m_github_repos = <<>>
  /\ m_mirrors = <<>>
  /\ m_result = "none"
  /\ l_host = "none"
  /\ l_pages = <<>>
  /\ l_result = NotListed
  /\ c_key = "none"
  /\ c_cli = "none"
  /\ c_file = "absent"
  /\ c_value = "unset"
  /\ RunOff

\* check_mirror_status and then perform_actions for the one decision "create
\* the mirror only" (the requests succeed; the glab command may fail).
MirrorProject ==
  /\ pc = "off"
  /\ f_args.fn = "mirror"
  /\ ~f_result.done
  /\ f_result' =
       [done |-> TRUE,
        tested |-> tested_name(f_args.user, f_args.gitlab_repo),
        calls |-> perform_one(Action(f_args.gitlab_repo, FALSE, TRUE), 1,
                              f_args.glab, f_args.user, TRUE, f_args.cli_ok, TRUE)]
  /\ UNCHANGED <<f_args, m_github_repos, m_mirrors, m_result, l_host, l_pages,
                 l_result, c_key, c_cli, c_file, c_value,
                 hostVars, cfgVars, runVars>>

MirrorSpec == MirrorInit /\ [][MirrorProject]_vars

-----------------------------------------------------------------------------
\* Vocabulary of the properties.

\* The plan of this run has been returned by find_actions_to_perform.
PlanComplete == pc \in {"perform", "done"}

\* The positions of the plan whose iteration of perform_actions has ended.
Executed == IF PlanComplete THEN 1..(idx - 1) ELSE {}

\* The calls of kind op made for the action at position k, by index in calls.
CallsAt(k, op) == {n \in 1..Len(calls) : calls[n].pos = k /\ calls[n].op = op}

Targets == {github_repos[j] : j \in 1..Len(github_repos)}
MirrorsOf(gitlab_repo) ==
  {hostMirrors[gitlab_repo.id][i] : i \in 1..Len(hostMirrors[gitlab_repo.id])}

\* A dry run was asked for: by the option, or by the file when no option is given.
DryRunRequested == cli_dry_run = "true" \/ (cli_dry_run = "none" /\ cfg_dry_run)

Reconciled(action) == ~action.create_github /\ ~action.create_mirror
Both(action) == action.create_github /\ action.create_mirror
AllReconciled == \A k \in 1..Len(actions) : Reconciled(actions[k])

\* The run before this one was not dry and none of its creation calls failed.
PrevRunClean == prev.ran /\ ~prev.dry /\ prev.calls_ok
\* Every mirror lookup of this run succeeded.
LookupsOk == \A k \in 1..Len(lookups) : lookups[k]
\* The user name the program uses for every repository of the snapshot is the
\* login of the account GitHub creates repositories under.
UsernameIsLogin ==
  \A k \in 1..Len(gitlab_repos) :
    github_username(github_user, gitlab_repos[k]) = ghLogin

-----------------------------------------------------------------------------
\* C1 (as stated): after a run that was not dry and whose creation calls all
\* succeeded, the next run (same options, hosts untouched in between, its
\* lookups succeeding) plans nothing for any repository and makes no creation
\* call, with either backend and with or without a configured GitHub user.
C1_IdempotentAnyAccount ==
  (PlanComplete /\ PrevRunClean /\ LookupsOk) => (AllReconciled /\ calls = <<>>)

\* C1 (amended): the same, for runs in which the user name the program uses for
\* every repository is the login of the GitHub account of the token.
C1_Idempotent ==
  (PlanComplete /\ PrevRunClean /\ LookupsOk /\ UsernameIsLogin)
    => (AllReconciled /\ calls = <<>>)

\* A second run is over, after a first one that created a repository and a mirror.
C1_Witness ==
  /\ pc = "done" /\ PrevRunClean /\ LookupsOk /\ UsernameIsLogin
  /\ prev.repo_made # {} /\ prev.mirror_made # {}
  /\ Len(actions) = MaxRepos

-----------------------------------------------------------------------------
-----------------------------------------------------------------------------
\* C3: for a repository record with only id, path and path_with_namespace, no
\* GitHub user configured, and a GitHub repository named like its
\* path_with_namespace: without mirrors the action is {create_github: false,
\* create_mirror: true}; with a mirror to that repository it is {false, false}.
C3_BareRecord ==
  pc = "check" =>
    \A k \in 1..Len(actions) :
      LET gitlab_repo == gitlab_repos[k] IN
        ( /\ ~gitlab_repo.has_namespace /\ ~gitlab_repo.has_owner
          /\ github_user = <<>>
          /\ lookups[k]
          /\ \E g \in Targets : g.full_name = gitlab_repo.path_with_namespace )
        => /\ hostMirrors[gitlab_repo.id] = <<>>
                => (~actions[k].create_github /\ actions[k].create_mirror)
           /\ (\E m \in MirrorsOf(gitlab_repo) :
                 m.has_url /\ EndsWith(m.url, <<"github.com", "/">>
                                 \o gitlab_repo.path_with_namespace \o <<".git">>))
                => Reconciled(actions[k])

-----------------------------------------------------------------------------
\* C4: mirror_target_exists is true exactly when the path of some mirror's url
\* (what follows the host) is "<full_name>.git" for some repository.

\* What follows the first "/" after the host.
UrlPath(url) ==
  LET slashes == {n \in 1..Len(url) : url[n] = "/"}
  IN  IF slashes = {} THEN <<>>
      ELSE SubSeq(url, (CHOOSE n \in slashes : \A m \in slashes : n <= m) + 1, Len(url))

C4_ExactPath ==
  m_result # "none" =>
    (m_result = "true" <=>
       \E i \in 1..Len(m_mirrors) : \E j \in 1..Len(m_github_repos) :
         /\ m_mirrors[i].has_url
         /\ UrlPath(m_mirrors[i].url) = m_github_repos[j].full_name \o <<".git">>)

-----------------------------------------------------------------------------
\* C5: in a run for which a dry run was asked (by the option, or by the file
\* when the option is not given) no creation call is made and the loop of
\* perform_actions is never entered, whatever the plan and the backend.
C5_DryRun == DryRunRequested => (calls = <<>> /\ pc # "perform")

\* A dry run asked by the file is over with work left in its plan.
C5_Witness ==
  /\ pc = "done" /\ cli_dry_run = "none" /\ cfg_dry_run /\ use_glab_cli
  /\ \E k \in 1..Len(actions) : Both(actions[k])

-----------------------------------------------------------------------------
\* C6 (as stated): with the glab backend, every executed action with
\* create_mirror has exactly one setup_mirror call; if that call failed, exactly
\* one create_mirror call follows it; if it succeeded there is none.
MirrorDue == {k \in Executed : actions[k].create_mirror}

CliThenApi(k) ==
  /\ Cardinality(CallsAt(k, "setup_mirror")) = 1
  /\ \A n \in CallsAt(k, "setup_mirror") :
       CallsAt(k, "create_mirror") = IF calls[n].ok THEN {} ELSE {n + 1}

C6_CliOnceThenApi == use_glab_cli => \A k \in MirrorDue : CliThenApi(k)

\* C6 (amended): the same for every executed action with create_mirror whose
\* create_repo call, if the action has create_github, did not fail; an action
\* whose create_repo call failed gets no mirror call at all.
RepoFailed(k) == \E n \in CallsAt(k, "create_repo") : ~calls[n].ok

C6_CliOnceThenApiIfReached ==
  use_glab_cli =>
    \A k \in MirrorDue :
      IF RepoFailed(k)
        THEN CallsAt(k, "setup_mirror") \cup CallsAt(k, "create_mirror") = {}
        ELSE CliThenApi(k)

\* glab failed for one action and succeeded for another.
C6_Witness ==
  /\ use_glab_cli /\ pc = "done"
  /\ \E j, k \in MirrorDue :
       /\ \E n \in CallsAt(j, "setup_mirror") : ~calls[n].ok
       /\ \E n \in CallsAt(k, "setup_mirror") : calls[n].ok

-----------------------------------------------------------------------------
\* C7: when the mirror lookup of one repository fails, every other repository
\* still gets its action, and that action is the one check_mirror_status gives
\* for that repository and its own lookup alone.
C7_Isolation ==
  /\ PlanComplete => Len(actions) = Len(gitlab_repos)
  /\ pc = "check" =>
       \A i, j \in 1..Len(actions) :
         (i # j /\ ~lookups[i]) =>
           actions[j] =
             check_mirror_status(gitlab_repos[j], github_repos, use_glab_cli,
                                 github_user,
                                 [ok |-> lookups[j],
                                  mirrors |-> hostMirrors[gitlab_repos[j].id]])

\* A failed lookup is followed by the action of a reconciled repository.
C7_Witness ==
  /\ pc = "check"
  /\ \E i, j \in 1..Len(actions) : i < j /\ ~lookups[i] /\ Reconciled(actions[j])

-----------------------------------------------------------------------------
\* C8: with either backend, a failed mirror lookup gives
\* {create_github: true, create_mirror: true}.
C8_FailedLookupBoth ==
  pc = "check" =>
    \A k \in 1..Len(actions) : ~lookups[k] => Both(actions[k])

-----------------------------------------------------------------------------
\* C9: the plan has one action per repository of the snapshot, in the order of
\* the snapshot, also when lookups fail: while it is built it is as long as
\* the number of repositories gone through, and once returned as long as the
\* snapshot.
C9_OnePerRepo ==
  /\ pc = "check" => Len(actions) = idx - 1
  /\ PlanComplete => Len(actions) = Len(gitlab_repos)
  /\ Len(actions) <= Len(gitlab_repos)
  /\ \A k \in 1..Len(actions) : actions[k].gitlab_repo = gitlab_repos[k]

\* A returned plan for MaxRepos repositories, the lookup of the first failed.
C9_Witness ==
  /\ PlanComplete /\ Len(actions) = MaxRepos /\ ~lookups[1]

-----------------------------------------------------------------------------
\* C10: in a run that is not dry the calls are made in plan order; whatever
\* failed before, every executed action with create_github has its create_repo
\* call and every executed action with create_mirror whose create_repo did not
\* fail has a mirror call; while actions are left the loop can always take its
\* next iteration, and it ends only after the last one.
C10_FailuresDoNotAbort ==
  /\ \A m, n \in 1..Len(calls) : m < n => calls[m].pos <= calls[n].pos
  /\ \A n \in 1..Len(calls) : calls[n].pos \in Executed
  /\ \A k \in Executed :
       /\ actions[k].create_github => CallsAt(k, "create_repo") # {}
       /\ (actions[k].create_mirror /\ ~RepoFailed(k))
            => CallsAt(k, "setup_mirror") \cup CallsAt(k, "create_mirror") # {}
  /\ pc = "perform" => (idx <= Len(actions) /\ ENABLED PerformAction)
  /\ (pc = "done" /\ ~DryRunRequested) => idx = Len(actions) + 1

\* Every call for the first action failed and the last action got its calls.
C10_Witness ==
  /\ pc = "done" /\ Len(actions) = MaxRepos /\ ~DryRunRequested
  /\ Both(actions[1]) /\ Both(actions[Len(actions)])
  /\ \A n \in 1..Len(calls) : calls[n].pos = 1 => ~calls[n].ok
  /\ \E n \in 1..Len(calls) : calls[n].pos = Len(actions) /\ calls[n].op # "create_repo"

-----------------------------------------------------------------------------
\* Vocabulary of the properties about the start of a run.

\* The positions in log of the requests and commands of kind op.
EventsOf(op) == {n \in 1..Len(log) : log[n].op = op}
\* Everything sent to a host, the probe of the local tool excluded.
HostEvents == {n \in 1..Len(log) : log[n].op # "probe"}
\* The requests about the GitLab side.
SourceOps == {"get_user", "get_repo", "get_repos", "get_mirrors"}

\* The run is past mirrormaker.py:119.
PastProbe == pc \in {"start", "check", "perform", "done"} \/ HostEvents # {}
\* The run only saves the configuration (mirrormaker.py:88-92).
SaveOnly == save_config /\ repo = <<>>
\* The glab backend was asked for and the probe exits with 0.
CliSelected == use_glab /\ glabExit = "zero"

-----------------------------------------------------------------------------
\* C11: when glab was not asked for there is no probe and the native backend
\* is used; when it was, the probe runs once, before any request to a host, and
\* glab is used exactly when the probe exits with 0, the run going on otherwise
\* with the native backend; every listing, lookup and mirror read of the run
\* goes through that backend, and the mirror calls start with glab exactly
\* when it is the glab backend.
C11_Selection ==
  /\ Cardinality(EventsOf("probe")) <= 1
  /\ EventsOf("probe") \subseteq {1}
  /\ ~use_glab => EventsOf("probe") = {}
  /\ PastProbe =>
       /\ use_glab => EventsOf("probe") = {1}
       /\ use_glab_cli = CliSelected
  /\ (pc = "start" /\ use_glab /\ glabExit # "zero") => (exit = "none" /\ ENABLED GetRepos)
  /\ \A n \in HostEvents : log[n].op \in SourceOps => log[n].glab = CliSelected
  /\ \A n \in 1..Len(calls) : calls[n].op = "setup_mirror" => CliSelected
  /\ \A k \in MirrorDue :
       (CliSelected /\ ~RepoFailed(k)) => CallsAt(k, "setup_mirror") # {}

\* glab was asked for, the probe exits with a code other than 0, and the run
\* listed, read mirrors and created a mirror through the API.
C11_Witness ==
  /\ use_glab /\ glabExit = "nonzero" /\ pc = "done"
  /\ EventsOf("get_mirrors") # {}
  /\ \E n \in 1..Len(calls) : calls[n].op = "create_mirror"

-----------------------------------------------------------------------------
\* C12: a run (other than one that only saves the configuration) that ends up
\* with the native backend and has no GitLab token ends with the fatal error
\* before anything is sent to a host and before any creation call; so does a
\* run without a GitHub token.
C12_TokensFirst ==
  (~SaveOnly /\ pc # "begin" /\ (~has_github_token \/ (~has_gitlab_token /\ ~CliSelected)))
    => /\ HostEvents = {}
       /\ calls = <<>>
       /\ pc \notin {"check", "perform", "done"}
       /\ pc = "ended" => exit = "ClickException"

-----------------------------------------------------------------------------
\* C13: when the listing of the GitLab repositories or of the GitHub
\* repositories fails, with either backend, the run ends with the fatal error,
\* without a plan and without a creation call.
C13_ListingFatal ==
  (\E n \in EventsOf("get_repos") \cup EventsOf("get_repos_github") : ~log[n].ok)
    => (exit = "ClickException" /\ actions = <<>> /\ calls = <<>>)

-----------------------------------------------------------------------------
\* C14: a listing returns every repository of every page the host serves,
\* once each, in page order and then in-page order (for GitHub: those of them
\* that are not forks), with GitHub, with GitLab through the API and with
\* GitLab through glab.
C14_AllPages ==
  l_result.done =>
    l_result.value = IF l_host = "github"
                       THEN SelectSeq(Flatten(l_pages), LAMBDA x : ~x.fork)
                       ELSE Flatten(l_pages)

-----------------------------------------------------------------------------
\* C15: the GitHub listing returns exactly the fetched repositories that are
\* not forks, in their relative order: it has no fork, its k-th element is the
\* k-th fetched repository that is not a fork, it is empty when nothing was
\* fetched; hence repo_exists and mirror_target_exists on it are only ever
\* satisfied by a fetched repository that is not a fork.
Fetched == Flatten(l_pages)
NonForks == {n \in 1..Len(Fetched) : ~Fetched[n].fork}
\* The k-th smallest element of a set of numbers.
Kth(S, k) == CHOOSE n \in S : Cardinality({m \in S : m <= n}) = k

C15_NonForksInOrder ==
  (l_host = "github" /\ l_result.done) =>
    LET value == l_result.value IN
      /\ \A k \in 1..Len(value) : ~value[k].fork
      /\ Len(value) = Cardinality(NonForks)
      /\ \A k \in 1..Len(value) : value[k] = Fetched[Kth(NonForks, k)]
      /\ Fetched = <<>> => value = <<>>
      /\ \A g \in ListGithub :
           /\ repo_exists(value, g.full_name)
                => \E n \in NonForks : Fetched[n].full_name = g.full_name
           /\ mirror_target_exists(value, <<Mirror(<<"github.com", "/">> \o g.full_name \o <<".git">>)>>)
                => \E n \in NonForks :
                     EndsWith(g.full_name \o <<".git">>, Fetched[n].full_name \o <<".git">>)

\* A listing over MaxPages pages that starts with a fork and has a repository
\* that is not one: the fork is not found in the result, by name or by mirror.
C15_Witness ==
  /\ l_host = "github" /\ l_result.done /\ Len(l_pages) = MaxPages
  /\ Fetched # <<>> /\ Fetched[1].fork
  /\ l_result.value # <<>>
  /\ ~repo_exists(l_result.value, Fetched[1].full_name)
  /\ ~mirror_target_exists(l_result.value,
         <<Mirror(<<"github.com", "/">> \o Fetched[1].full_name \o <<".git">>)>>)

-----------------------------------------------------------------------------
\* C16 (as stated): when the run before created the GitHub repository of a
\* GitLab repository and failed to create its mirror, this run (same options,
\* hosts untouched in between, the mirror lookup succeeding) decides
\* {create_github: false, create_mirror: true} for it and, once it has
\* executed that decision, has made a mirror call and no create_repo call for it.

\* The repository at position k was left half done by the run before.
HalfDone(k) ==
  /\ prev.ran
  /\ gitlab_repos[k].id \in prev.repo_made
  /\ gitlab_repos[k].id \in prev.mirror_failed \ prev.mirror_made
  /\ lookups[k]

MirrorCallsAt(k) == CallsAt(k, "setup_mirror") \cup CallsAt(k, "create_mirror")

MissingHalfOnly(k) ==
  /\ actions[k] = [gitlab_repo |-> gitlab_repos[k],
                   create_github |-> FALSE, create_mirror |-> TRUE]
  /\ k \in Executed => (CallsAt(k, "create_repo") = {} /\ MirrorCallsAt(k) # {})

C16_RetryMissingHalfAlways ==
  \A k \in 1..Len(actions) : HalfDone(k) => MissingHalfOnly(k)

\* C16 (amended): the same, when the user name the program uses for the
\* repository is the login of the GitHub account of the token, and the GitLab
\* repository had, when this run began, no mirror that ends with
\* "<full_name>.git" of a GitHub repository of the snapshot.

\* The mirrors of the repository at position k that match the snapshot, and
\* those of them that this run made.
MatchingMirrors(k) ==
  SelectSeq(hostMirrors[gitlab_repos[k].id],
            LAMBDA m : mirror_target_exists(github_repos, <<m>>))
MirrorsMadeAt(k) == {n \in MirrorCallsAt(k) : calls[n].ok}

C16_RetryMissingHalf ==
  \A k \in 1..Len(actions) :
    ( /\ HalfDone(k)
      /\ github_username(github_user, gitlab_repos[k]) = ghLogin
      /\ Len(MatchingMirrors(k)) = Cardinality(MirrorsMadeAt(k)) )
    => MissingHalfOnly(k)

\* A second run has made the mirror of a repository that the first run left
\* with its GitHub repository only.
C16_Witness ==
  /\ pc = "done"
  /\ \E k \in Executed :
       /\ HalfDone(k)
       /\ github_username(github_user, gitlab_repos[k]) = ghLogin
       /\ Len(MatchingMirrors(k)) = Cardinality(MirrorsMadeAt(k))
       /\ MirrorsMadeAt(k) # {}

-----------------------------------------------------------------------------
\* C17: for every option the value in effect is the value given on the
\* command line if one was given, else the value of the configuration file if
\* it has one, else the default.
C17_Precedence ==
  c_value # "unset" =>
    c_value = IF c_cli # "none" THEN c_cli
              ELSE IF c_file # "absent" THEN c_file
              ELSE DEFAULT_CONFIG(c_key)

-----------------------------------------------------------------------------
\* C18: with either backend, the url of every mirror call (setup_mirror or
\* create_mirror) contains the user name in effect and the GitHub token, and
\* ends with "<user name>/<path>.git".

\* t occurs in s.
Contains(s, t) == \E i \in 1..(Len(s) - Len(t) + 1) : SubSeq(s, i, i + Len(t) - 1) = t

C18_UrlWithCredentials ==
  \A n \in 1..Len(calls) :
    calls[n].op # "create_repo" =>
      LET gitlab_repo == actions[calls[n].pos].gitlab_repo
          user == github_username(github_user, gitlab_repo)
      IN  /\ Contains(calls[n].url, user)
          /\ Contains(calls[n].url, github_token)
          /\ EndsWith(calls[n].url, Slug(user, gitlab_repo.path) \o <<".git">>)

-----------------------------------------------------------------------------
\* C19: in a run with REPO, with either backend, the project looked up is
\* "<GitLab user>/<REPO>" when REPO is a bare name, the user read from GitLab
\* before, and REPO itself when it has a namespace; a lookup that finds
\* nothing ends the run with the fatal error, without a plan and without a
\* creation call.
C19_Shorthand ==
  repo # <<>> =>
    \A n \in EventsOf("get_repo") :
      /\ log[n].path = IF HasSlash(repo) THEN repo ELSE Slug(glUser, repo)
      /\ ~HasSlash(repo) => \E m \in EventsOf("get_user") : m < n /\ log[m].ok
      /\ ~log[n].ok => (exit = "ClickException" /\ actions = <<>> /\ calls = <<>>)

-----------------------------------------------------------------------------
\* C20: a run ends either normally, with exit code 0, or with a
\* ClickException, and with nothing else: it is over exactly when one of the
\* two is recorded; every exception raised in mirrormaker(), of whatever
\* type, leaves it as a ClickException, and a ClickException is never seen
\* without one; a run that went through perform_actions ends with 0; a run
\* without REPO whose GitLab listing is empty ends with 0 without a request
\* to GitHub, a plan or a creation call.
C20_Outcomes ==
  /\ exit \in {"none", "0", "ClickException"}
  /\ exit = "none" <=> pc \notin {"done", "ended"}
  /\ cause # "none" => (pc = "ended" /\ exit = "ClickException")
  /\ exit = "ClickException" => cause # "none"
  /\ pc = "done" => exit = "0"
  /\ (repo = <<>> /\ EventsOf("get_repos") # {} /\ cause = "none" /\ gitlab_repos = <<>>)
       => /\ exit = "0"
          /\ EventsOf("get_repos_github") = {}
          /\ actions = <<>> /\ calls = <<>>

\* The GitHub listing failed after a GitLab listing that succeeded.
C20_Witness ==
  /\ pc = "ended" /\ cause = "GitHubError"
  /\ \E n \in EventsOf("get_repos") : log[n].ok
  /\ gitlab_repos # <<>>

-----------------------------------------------------------------------------
\* C21: in a run that ends up with the native backend nothing but the probe
\* goes through glab: no listing, no lookup, no mirror read and no mirror
\* setup; and with either backend a create_mirror call is never followed by a
\* setup_mirror call for the same action: the fallback goes from glab to the
\* API only.
C21_NoCliUnderNative ==
  /\ (PastProbe /\ ~CliSelected) =>
       /\ \A n \in HostEvents : ~log[n].glab
       /\ \A n \in 1..Len(calls) : calls[n].op # "setup_mirror"
  /\ ~use_glab => \A n \in 1..Len(log) : ~log[n].glab
  /\ \A m, n \in 1..Len(calls) :
       (calls[m].op = "create_mirror" /\ calls[n].op = "setup_mirror"
          /\ calls[m].pos = calls[n].pos) => n < m

\* glab was asked for and cannot be run; the run listed and read mirrors
\* through the API and its create_mirror call failed.
C21_Witness ==
  /\ use_glab /\ glabExit = "error" /\ pc = "done"
  /\ EventsOf("get_mirrors") # {}
  /\ \E n \in 1..Len(calls) : calls[n].op = "create_mirror" /\ ~calls[n].ok

-----------------------------------------------------------------------------
\* C25: no action of any plan has create_github without create_mirror, with
\* either backend, whether the mirror lookup succeeded or failed.
C25_NoRepoWithoutMirror ==
  \A k \in 1..Len(actions) : ~actions[k].create_mirror => ~actions[k].create_github

\* A plan of the glab backend with a reconciled repository after a lookup
\* that failed.
C25_Witness ==
  /\ PlanComplete /\ use_glab_cli /\ Len(actions) = MaxRepos
  /\ \E j, k \in 1..Len(actions) : ~lookups[j] /\ lookups[k] /\ Reconciled(actions[k])

-----------------------------------------------------------------------------
\* C26: for an executed action with both flags the create_repo call comes
\* before every mirror call; when the create_repo call failed there is no
\* mirror call, by glab or by the API, for that action; so no mirror is made
\* in a run for a repository whose create_repo call failed in that run.
C26_RepoBeforeMirror ==
  /\ \A k \in Executed :
       Both(actions[k]) =>
         /\ Cardinality(CallsAt(k, "create_repo")) = 1
         /\ \A n \in CallsAt(k, "create_repo") : \A m \in MirrorCallsAt(k) : n < m
         /\ RepoFailed(k) => MirrorCallsAt(k) = {}
  /\ \A m, n \in 1..Len(calls) :
       (calls[n].op = "create_repo" /\ ~calls[n].ok /\ calls[m].id = calls[n].id)
         => calls[m].op = "create_repo"

\* One action whose create_repo call failed, and one whose create_repo call
\* succeeded and was followed by a mirror call.
C26_Witness ==
  /\ pc = "done"
  /\ \E j, k \in Executed :
       /\ Both(actions[j]) /\ RepoFailed(j)
       /\ Both(actions[k]) /\ ~RepoFailed(k) /\ MirrorCallsAt(k) # {}

-----------------------------------------------------------------------------
\* C24: reconciliation is a function of its inputs and reads only.  When the
\* run before returned a plan and changed nothing on the hosts, so that this
\* run (same options, same backend) reconciles the same snapshots and the
\* same mirrors, and the mirror lookups of the two runs ended alike, the two
\* plans are equal; and a step of find_actions_to_perform makes no creation
\* call and leaves the hosts, the options and the backend as they are.

\* The run before went through to the end and made nothing.
PrevRunMadeNothing == prev.ran /\ prev.repo_made = {} /\ prev.mirror_made = {}

SamePlanAgain ==
  (PlanComplete /\ PrevRunMadeNothing /\ prev.lookups = lookups)
    => actions = prev.actions

-----------------------------------------------------------------------------
\* C22: Config.update sets exactly the keys the configuration already has and
\* whose given value is not None, each to the given value; every other key
\* keeps its value, no key is added, and get(key) then returns the new value.

\* The value given for a key, "none" when the key is not given.
Given(kwargs, key) ==
  IF \E i \in 1..Len(kwargs) : kwargs[i][1] = key
    THEN kwargs[CHOOSE i \in 1..Len(kwargs) : kwargs[i][1] = key][2]
    ELSE "none"

C22_UpdateKnownKeys ==
  (f_args.fn = "update" /\ f_result.done) =>
    LET before == f_args.config
        after == f_result.config
    IN  /\ DOMAIN after = DOMAIN before
        /\ \A key \in DOMAIN before :
             LET value == Given(f_args.kwargs, key)
             IN  /\ after[key] = IF value # "none" THEN value ELSE before[key]
                 /\ Config_get(after, key, "none") = after[key]
        /\ Config_get(after, "unknown", "none") = "none"

\* A call that gives a new value for one key, None for the other, and a key
\* that the configuration does not have.
C22_Witness ==
  /\ f_args.fn = "update" /\ f_result.done
  /\ Given(f_args.kwargs, "unknown") = "y"
  /\ \E key \in ConfigKeys :
       f_result.config[key] \notin {f_args.config[key], "none"}
  /\ \E i \in 1..Len(f_args.kwargs) :
       f_args.kwargs[i][1] \in ConfigKeys /\ f_args.kwargs[i][2] = "none"

-----------------------------------------------------------------------------
\* C23: the reads of glab_cli never raise.  When the command cannot be
\* started, exits with a non-zero code, or prints what is not JSON, get_repos
\* and get_mirrors return [] and get_repo_by_path returns None; otherwise each
\* returns the parsed output, an empty array as the empty list.

\* The command ran, exited with 0 and printed JSON.
Succeeded(command) ==
  /\ command.launched
  /\ command.returncode = 0
  /\ json_loads(command.stdout).raised = "none"

C23_ReadsNeverRaise ==
  (f_args.fn \in Reads /\ f_result.done) =>
    /\ f_result.raised = "none"
    /\ Succeeded(f_args.command) =>
         f_result.value = json_loads(f_args.command.stdout).value
    /\ ~Succeeded(f_args.command) =>
         f_result.value = IF f_args.fn = "get_repo_by_path" THEN None
                          ELSE List(<<>>)

\* get_repo_by_path whose command exits with 0 after printing an array that
\* is not closed: json.loads raises and the read returns None.
C23_Witness ==
  /\ f_args.fn = "get_repo_by_path" /\ f_result.done
  /\ f_args.command.launched
  /\ f_args.command.returncode = 0
  /\ f_args.command.stdout = <<"[", "{1}", ",">>
  /\ json_loads(f_args.command.stdout).raised = "JSONDecodeError"
  /\ f_result.raised = "none"
  /\ f_result.value = None

-----------------------------------------------------------------------------
\* C27: the name reconciliation tests for a project is the name its mirror
\* points at: the path of the url of every mirror call made for the project
\* (setup_mirror and create_mirror alike) is that name followed by ".git",
\* whatever github.user, the namespace path and the owner's username are.
C27_SameUsername ==
  (f_args.fn = "mirror" /\ f_result.done) =>
    \A n \in 1..Len(f_result.calls) :
      UrlPath(f_result.calls[n].url) = f_result.tested \o <<".git">>

====
